---- MODULE Spec2Model ----
(***************************************************************************)
(* Model of kong's help renderer (help.go): the helpWriter line buffer,    *)
(* word wrapping, the two-column table layout, the flag formatter and the  *)
(* DefaultHelpPrinter orchestration.                                       *)
(*                                                                         *)
(* A Go string is modelled as a sequence of one-character strings, so      *)
(* that trimming, padding, splitting and wrapping are computed character   *)
(* by character as the code computes them.                                 *)
(***************************************************************************)
EXTENDS Integers, Sequences, FiniteSets, TLC

\* ------------------------------------------------------------------------
\* Characters and the string primitives of package strings / fmt.

SP == " "
NL == "\n"
TAB == "\t"

\* unicode.IsSpace restricted to the characters of the model's alphabet.
IsSpace(c) == c \in {SP, NL, TAB}

\* strings.Repeat(c, n) for a one-character string c.
Repeat(c, n) == [i \in 1..n |-> c]

\* strings.TrimRight(s, cutset): drops the trailing characters in cutset.
RECURSIVE TrimRight(_, _)
TrimRight(s, cutset) ==
  IF s # <<>> /\ s[Len(s)] \in cutset
    THEN TrimRight(SubSeq(s, 1, Len(s) - 1), cutset)
    ELSE s

\* strings.TrimLeft(s, cutset), used by TrimSpace.
RECURSIVE TrimLeft(_, _)
TrimLeft(s, cutset) ==
  IF s # <<>> /\ s[1] \in cutset THEN TrimLeft(Tail(s), cutset) ELSE s

\* strings.TrimSpace(s).
TrimSpace(s) == TrimLeft(TrimRight(s, {SP, NL, TAB}), {SP, NL, TAB})

\* strings.Split(s, "\n"): the pieces between newlines (one empty piece for "").
RECURSIVE SplitFrom(_, _)
SplitFrom(s, cur) ==
  IF s = <<>> THEN <<cur>>
  ELSE IF s[1] = NL THEN <<cur>> \o SplitFrom(Tail(s), <<>>)
  ELSE SplitFrom(Tail(s), Append(cur, s[1]))

Split(s) == SplitFrom(s, <<>>)

\* strings.SplitAfter(s, "\n"): as Split, each piece keeping its newline.
RECURSIVE SplitAfterFrom(_, _)
SplitAfterFrom(s, cur) ==
  IF s = <<>> THEN <<cur>>
  ELSE IF s[1] = NL THEN <<Append(cur, NL)>> \o SplitAfterFrom(Tail(s), <<>>)
  ELSE SplitAfterFrom(Tail(s), Append(cur, s[1]))

SplitAfter(s) == SplitAfterFrom(s, <<>>)

\* strings.Fields(s): the maximal runs of non-space characters.
RECURSIVE FieldsFrom(_, _)
FieldsFrom(s, cur) ==
  IF s = <<>> THEN (IF cur = <<>> THEN <<>> ELSE <<cur>>)
  ELSE IF IsSpace(s[1])
    THEN (IF cur = <<>> THEN <<>> ELSE <<cur>>) \o FieldsFrom(Tail(s), <<>>)
    ELSE FieldsFrom(Tail(s), Append(cur, s[1]))

Fields(s) == FieldsFrom(s, <<>>)

\* The concatenation of the sequences of ss.
RECURSIVE Flatten(_)
Flatten(ss) == IF ss = <<>> THEN <<>> ELSE ss[1] \o Flatten(Tail(ss))

\* fmt.Sprintf for the verbs %s and %c: each verb takes the next argument.
RECURSIVE Sprintf(_, _)
Sprintf(format, args) ==
  IF format = <<>> THEN <<>>
  ELSE IF format[1] = "%" /\ Len(format) >= 2 /\ format[2] \in {"s", "c"}
    THEN args[1] \o Sprintf(SubSeq(format, 3, Len(format)), Tail(args))
    ELSE <<format[1]>> \o Sprintf(Tail(format), args)

\* fmt.Sprintf("%-*s", n, s): s left-justified in a field of n characters.
PadRight(n, s) == IF Len(s) >= n THEN s ELSE s \o Repeat(SP, n - Len(s))

\* fmt.Sprintf("%*s%s", n, "", s): n spaces, then s.
PadLeft(n, s) == Repeat(SP, n) \o s

\* ------------------------------------------------------------------------
\* go/doc.ToText (the greedy lineWrapper of comment.go) for texts without
\* headings, quotes or "//" prefixes: paragraphs are re-flowed word by word,
\* indented lines form preformatted blocks that are copied unwrapped.

isBlank(s) == Len(s) = 0 \/ (Len(s) = 1 /\ s[1] = NL)

RECURSIVE indentLen(_)
indentLen(s) ==
  IF s # <<>> /\ s[1] \in {SP, TAB} THEN 1 + indentLen(Tail(s)) ELSE 0

RECURSIVE commonPrefix(_, _)
commonPrefix(a, b) ==
  IF a # <<>> /\ b # <<>> /\ a[1] = b[1]
    THEN <<a[1]>> \o commonPrefix(Tail(a), Tail(b))
    ELSE <<>>

\* The maximum common white prefix of the non-blank lines of a block.
RECURSIVE whitePrefix(_, _, _)
whitePrefix(block, i, prefix) ==
  IF i > Len(block) THEN prefix
  ELSE whitePrefix(block, i + 1,
         IF isBlank(block[i]) THEN prefix
         ELSE commonPrefix(prefix, SubSeq(block[i], 1, indentLen(block[i]))))

unindent(block) ==
  IF Len(block) = 0 THEN block
  ELSE LET n == Len(whitePrefix(block, 1,
                     SubSeq(block[1], 1, indentLen(block[1]))))
       IN [i \in 1..Len(block) |->
             IF isBlank(block[i]) THEN block[i]
             ELSE SubSeq(block[i], n + 1, Len(block[i]))]

closePara(out, para) ==
  IF para # <<>> THEN Append(out, [op |-> "para", lines |-> para]) ELSE out

\* End (exclusive) of the run of indented or blank lines starting at i.
RECURSIVE preEnd(_, _)
preEnd(lines, j) ==
  IF j <= Len(lines) /\ (isBlank(lines[j]) \/ indentLen(lines[j]) > 0)
    THEN preEnd(lines, j + 1) ELSE j

\* ... but not the trailing blank lines.
RECURSIVE preTrim(_, _, _)
preTrim(lines, i, j) ==
  IF j > i /\ isBlank(lines[j - 1]) THEN preTrim(lines, i, j - 1) ELSE j

RECURSIVE blocksFrom(_, _, _, _)
blocksFrom(lines, i, out, para) ==
  IF i > Len(lines) THEN closePara(out, para)
  ELSE IF isBlank(lines[i])
    THEN blocksFrom(lines, i + 1, closePara(out, para), <<>>)
  ELSE IF indentLen(lines[i]) > 0
    THEN LET j == preTrim(lines, i, preEnd(lines, i + 1))
             pre == unindent(SubSeq(lines, i, j - 1))
         IN blocksFrom(lines, j,
              Append(closePara(out, para), [op |-> "pre", lines |-> pre]), <<>>)
  ELSE blocksFrom(lines, i + 1, out, Append(para, lines[i]))

blocks(text) == blocksFrom(unindent(SplitAfter(text)), 1, <<>>, <<>>)

\* lineWrapper.write for the fields of one source line.
RECURSIVE lwFields(_, _, _, _)
lwFields(l, fs, indent, width) ==
  IF fs = <<>> THEN l
  ELSE LET w == Len(fs[1])
           wrap == l.n > 0 /\ l.n + l.pendSpace + w > width
           n0 == IF wrap THEN 0 ELSE l.n
           ps == IF wrap THEN 0 ELSE l.pendSpace
           o1 == IF wrap THEN Append(l.out, NL) ELSE l.out
           o2 == IF n0 = 0 THEN o1 \o indent ELSE o1
           o3 == o2 \o Repeat(SP, ps) \o fs[1]
       IN lwFields([l EXCEPT !.out = o3, !.n = n0 + ps + w, !.pendSpace = 1],
                   Tail(fs), indent, width)

lwWrite(l, text, indent, width) ==
  LET o == IF l.n = 0 /\ l.printed THEN Append(l.out, NL) ELSE l.out
  IN lwFields([l EXCEPT !.out = o, !.printed = TRUE], Fields(text), indent, width)

lwFlush(l) ==
  IF l.n = 0 THEN l
  ELSE [l EXCEPT !.out = Append(@, NL), !.pendSpace = 0, !.n = 0]

RECURSIVE lwPara(_, _, _, _)
lwPara(l, ls, indent, width) ==
  IF ls = <<>> THEN lwFlush(l)
  ELSE lwPara(lwWrite(l, ls[1], indent, width), Tail(ls), indent, width)

RECURSIVE prePara(_, _, _)
prePara(out, ls, preIndent) ==
  IF ls = <<>> THEN out
  ELSE prePara(IF isBlank(ls[1]) THEN Append(out, NL)
               ELSE out \o preIndent \o ls[1],
               Tail(ls), preIndent)

RECURSIVE toTextBlocks(_, _, _, _, _)
toTextBlocks(l, bs, indent, preIndent, width) ==
  IF bs = <<>> THEN l.out
  ELSE IF bs[1].op = "para"
    THEN toTextBlocks(lwPara(l, bs[1].lines, indent, width),
                      Tail(bs), indent, preIndent, width)
    ELSE toTextBlocks(
           [l EXCEPT !.out = prePara(Append(@, NL), bs[1].lines, preIndent)],
           Tail(bs), indent, preIndent, width)

ToText(text, indent, preIndent, width) ==
  toTextBlocks([out |-> <<>>, printed |-> FALSE, n |-> 0, pendSpace |-> 0],
               blocks(text), indent, preIndent, width)

\* ------------------------------------------------------------------------
\* Program constants and the literal strings of help.go.

defaultIndent == 2
defaultColumnPadding == 4
\* The label length from which a row is too long to align (writeTwoColumns).
LabelCutoff == 30

\* Usage:  %s
FmtUsageApp ==
  <<"U", "s", "a", "g", "e", ":", " ", " ", "%", "s">>

\* Usage:  %s %s
FmtUsageCmd ==
  <<"U", "s", "a", "g", "e", ":", " ", " ", "%", "s", " ", "%", "s">>

\* Run "%s --help" for more information.
FmtHintSummary ==
  <<"R", "u", "n", " ", "\"", "%", "s", " ", "-", "-", "h", "e", "l", "p",
    "\"", " ", "f", "o", "r", " ", "m", "o", "r", "e", " ", "i", "n", "f",
    "o", "r", "m", "a", "t", "i", "o", "n", ".">>

\* Run "%s <command> --help" for more information on a command.
FmtHintCommand ==
  <<"R", "u", "n", " ", "\"", "%", "s", " ", "<", "c", "o", "m", "m", "a",
    "n", "d", ">", " ", "-", "-", "h", "e", "l", "p", "\"", " ", "f", "o",
    "r", " ", "m", "o", "r", "e", " ", "i", "n", "f", "o", "r", "m", "a",
    "t", "i", "o", "n", " ", "o", "n", " ", "a", " ", "c", "o", "m", "m",
    "a", "n", "d", ".">>

\* Run "%s %s --help" for more information.
FmtHintCmdSummary ==
  <<"R", "u", "n", " ", "\"", "%", "s", " ", "%", "s", " ", "-", "-", "h",
    "e", "l", "p", "\"", " ", "f", "o", "r", " ", "m", "o", "r", "e", " ",
    "i", "n", "f", "o", "r", "m", "a", "t", "i", "o", "n", ".">>

HdrArguments ==
  <<"A", "r", "g", "u", "m", "e", "n", "t", "s", ":">>

HdrFlags ==
  <<"F", "l", "a", "g", "s", ":">>

HdrCommands ==
  <<"C", "o", "m", "m", "a", "n", "d", "s", ":">>

\* -%c, --%s
FmtFlagShort ==
  <<"-", "%", "c", ",", " ", "-", "-", "%", "s">>

\*     --%s
FmtFlagReserved ==
  <<" ", " ", " ", " ", "-", "-", "%", "s">>

\* --%s
FmtFlagLong ==
  <<"-", "-", "%", "s">>

\* =%s
FmtPlaceHolder ==
  <<"=", "%", "s">>

\* %s%s
FmtOffsetLine ==
  <<"%", "s", "%", "s">>

\* Flag.Short when the flag has no short form (the zero rune).
NoShort == <<>>

\* ------------------------------------------------------------------------
\* helpWriter.  A writer value h is [indent, width, Summary, Compact]; the
\* line sequence *h.lines that all views share is passed in as ls and the
\* extended sequence is returned.

\* Address of the sequence newHelpWriter allocates (lines := []string{}).
RootAddr == 1

newHelpWriter(width, opts) ==
  [indent |-> <<>>, width |-> width, lines |-> RootAddr,
   Summary |-> opts.Summary, Compact |-> opts.Compact]

\* Mutant of helpWriter_Print: the line is stored untrimmed.
helpWriter_PrintNoTrim(h, ls, text) == Append(ls, h.indent \o text)

helpWriter_Print(h, ls, text) ==
  Append(ls, TrimRight(h.indent \o text, {SP}))

helpWriter_Printf(h, ls, format, args) ==
  helpWriter_Print(h, ls, Sprintf(format, args))

\* Mutant of helpWriter_Indent: the view gets a line sequence of its own.
helpWriter_IndentOwnLines(h) ==
  [h EXCEPT !.indent = @ \o <<SP, SP>>, !.width = @ - 2,
            !.lines = RootAddr + 1]

\* Mutant of helpWriter_Indent: the available width is not reduced.
helpWriter_IndentKeepWidth(h) == [h EXCEPT !.indent = @ \o <<SP, SP>>]

helpWriter_Indent(h) ==
  [h EXCEPT !.indent = @ \o <<SP, SP>>, !.width = @ - 2]

RECURSIVE printEach(_, _, _)
printEach(h, ls, texts) ==
  IF texts = <<>> THEN ls
  ELSE printEach(h, helpWriter_Print(h, ls, texts[1]), Tail(texts))

helpWriter_Wrap(h, ls, text) ==
  LET w == ToText(TrimSpace(text), <<>>, Repeat(SP, 4), h.width)
  IN printEach(h, ls, Split(TrimSpace(w)))

\* ------------------------------------------------------------------------
\* writeTwoColumns.

\* Mutant of firstColumnSize: the longest label, whatever its length.
RECURSIVE firstColumnSizeNoCutoff(_, _, _)
firstColumnSizeNoCutoff(rows, i, leftSize) ==
  IF i > Len(rows) THEN leftSize
  ELSE LET c == Len(rows[i][1])
       IN firstColumnSizeNoCutoff(rows, i + 1,
            IF c > leftSize THEN c ELSE leftSize)

\* The first loop: the size of the first column.
RECURSIVE firstColumnSize(_, _, _)
firstColumnSize(rows, i, leftSize) ==
  IF i > Len(rows) THEN leftSize
  ELSE LET c == Len(rows[i][1])
       IN firstColumnSize(rows, i + 1,
            IF c > leftSize /\ c < LabelCutoff THEN c ELSE leftSize)

RECURSIVE printfEach(_, _, _, _)
printfEach(w, ls, offsetStr, texts) ==
  IF texts = <<>> THEN ls
  ELSE printfEach(w,
         helpWriter_Printf(w, ls, FmtOffsetLine, <<offsetStr, texts[1]>>),
         offsetStr, Tail(texts))

\* One iteration of the second loop: the lines of one row.
twoColumnsRow(w, ls, padding, leftSize, row) ==
  LET buf == ToText(row[2], <<>>, Repeat(SP, defaultIndent),
                    w.width - leftSize - padding)
      dl == Split(TrimRight(buf, {NL}))
      short == Len(row[1]) < LabelCutoff
      line == IF short
                THEN PadRight(leftSize, row[1]) \o PadLeft(padding, dl[1])
                ELSE PadRight(leftSize, row[1])
      rest == IF short THEN Tail(dl) ELSE dl
  IN printfEach(w, helpWriter_Print(w, ls, line),
                Repeat(SP, leftSize + padding), rest)

RECURSIVE twoColumnsRows(_, _, _, _, _, _)
twoColumnsRows(w, ls, padding, leftSize, rows, i) ==
  IF i > Len(rows) THEN ls
  ELSE twoColumnsRows(w, twoColumnsRow(w, ls, padding, leftSize, rows[i]),
                      padding, leftSize, rows, i + 1)

writeTwoColumns(w, ls, padding, rows) ==
  twoColumnsRows(w, ls, padding, firstColumnSize(rows, 1, 0), rows, 1)

writePositionals(w, ls, args) ==
  writeTwoColumns(w, ls, defaultColumnPadding,
                  [i \in 1..Len(args) |-> <<args[i].Summary, args[i].Help>>])

\* ------------------------------------------------------------------------
\* Flags.  A flag is [Name, Short, Hidden, IsBool, PlaceHolder, Help].

formatFlag(haveShort, flag) ==
  LET head == IF flag.Short # NoShort
                THEN Sprintf(FmtFlagShort, <<flag.Short, flag.Name>>)
              ELSE IF haveShort
                THEN Sprintf(FmtFlagReserved, <<flag.Name>>)
                ELSE Sprintf(FmtFlagLong, <<flag.Name>>)
  IN IF ~flag.IsBool
       THEN head \o Sprintf(FmtPlaceHolder, <<flag.PlaceHolder>>)
       ELSE head

\* The first loop of writeFlags.
flagsHaveShort(groups) ==
  \E i \in 1..Len(groups) :
    \E j \in 1..Len(groups[i]) : groups[i][j].Short # NoShort

RECURSIVE groupRows(_, _, _, _)
groupRows(haveShort, group, j, rows) ==
  IF j > Len(group) THEN rows
  ELSE groupRows(haveShort, group, j + 1,
         IF ~group[j].Hidden
           THEN Append(rows, <<formatFlag(haveShort, group[j]), group[j].Help>>)
           ELSE rows)

\* The second loop of writeFlags: the rows of the table.
RECURSIVE flagRows(_, _, _, _)
flagRows(haveShort, groups, i, rows) ==
  IF i > Len(groups) THEN rows
  ELSE flagRows(haveShort, groups, i + 1,
         groupRows(haveShort, groups[i], 1,
                   IF i > 1 THEN Append(rows, <<<<>>, <<>>>>) ELSE rows))

writeFlagsRows(groups) == flagRows(flagsHaveShort(groups), groups, 1, <<>>)

writeFlags(w, ls, groups) ==
  writeTwoColumns(w, ls, defaultColumnPadding, writeFlagsRows(groups))

\* ------------------------------------------------------------------------
\* The renderer.  A node is [Help, Positional, Flags, Leaves]: its help
\* text, its positionals [Summary, Help], the groups AllFlags() returns and
\* the commands [Summary, Path, Help] Leaves() returns.

\* Lines 48 / 68 / 75-76: a blank line, then a line of text.
printAfterBlank(w, ls, line) ==
  helpWriter_Print(w, helpWriter_Print(w, ls, <<>>), line)

commandHelp(w, ls, cmd) ==
  IF cmd.Help # <<>> THEN helpWriter_Wrap(helpWriter_Indent(w), ls, cmd.Help)
  ELSE ls

printCommandSummary(w, ls, cmd) ==
  commandHelp(w, helpWriter_Print(w, ls, cmd.Summary), cmd)

\* Lines 98-100: the blank line between two commands.
commandSeparator(iw, ls, last) ==
  IF ~last THEN helpWriter_Print(iw, ls, <<>>) ELSE ls

RECURSIVE commandBlocks(_, _, _, _)
commandBlocks(iw, ls, cmds, i) ==
  IF i > Len(cmds) THEN ls
  ELSE commandBlocks(iw,
         commandSeparator(iw, printCommandSummary(iw, ls, cmds[i]),
                          i = Len(cmds)),
         cmds, i + 1)

detailHelp(w, ls, node) ==
  IF node.Help # <<>>
    THEN helpWriter_Wrap(w, helpWriter_Print(w, ls, <<>>), node.Help)
    ELSE ls

detailPositionals(w, ls, node) ==
  IF Len(node.Positional) > 0
    THEN writePositionals(helpWriter_Indent(w),
                          printAfterBlank(w, ls, HdrArguments),
                          node.Positional)
    ELSE ls

detailFlags(w, ls, node) ==
  IF Len(node.Flags) > 0
    THEN writeFlags(helpWriter_Indent(w), printAfterBlank(w, ls, HdrFlags),
                    node.Flags)
    ELSE ls

commandRows(cmds) == [i \in 1..Len(cmds) |-> <<cmds[i].Path, cmds[i].Help>>]

commandList(iw, ls, cmds) ==
  IF iw.Compact
    THEN writeTwoColumns(iw, ls, defaultColumnPadding, commandRows(cmds))
    ELSE commandBlocks(iw, ls, cmds, 1)

detailCommands(w, ls, cmds) ==
  IF Len(cmds) > 0
    THEN commandList(helpWriter_Indent(w),
                     printAfterBlank(w, ls, HdrCommands), cmds)
    ELSE ls

\* Mutant of printNodeDetail: no early return in summary mode.
printNodeDetailNoReturn(w, ls, node) ==
  detailCommands(w,
    detailFlags(w,
      detailPositionals(w, detailHelp(w, ls, node), node), node),
    node.Leaves)

printNodeDetail(w, ls, node) ==
  IF w.Summary THEN detailHelp(w, ls, node)
  ELSE detailCommands(w,
         detailFlags(w,
           detailPositionals(w, detailHelp(w, ls, node), node), node),
         node.Leaves)

\* app is [Name, Summary, Node]; app.Leaves() is the root node's Leaves.
appHint(w, ls, app) ==
  IF Len(app.Node.Leaves) > 0
    THEN printAfterBlank(w, ls,
           Sprintf(IF w.Summary THEN FmtHintSummary ELSE FmtHintCommand,
                   <<app.Name>>))
    ELSE ls

printApp(w, ls, app) ==
  appHint(w,
    printNodeDetail(w, helpWriter_Printf(w, ls, FmtUsageApp, <<app.Summary>>),
                    app.Node),
    app)

\* cmd is a node with the command's Summary and Path.
commandHint(w, ls, app, cmd) ==
  IF w.Summary
    THEN printAfterBlank(w, ls,
           Sprintf(FmtHintCmdSummary, <<app.Name, cmd.Path>>))
    ELSE ls

printCommand(w, ls, app, cmd) ==
  commandHint(w,
    printNodeDetail(w,
      helpWriter_Printf(w, ls, FmtUsageCmd, <<app.Name, cmd.Summary>>), cmd),
    app, cmd)

\* ------------------------------------------------------------------------
\* helpWriter.Write.  The sink is the sequence of characters it has
\* accepted; a write of s that accepts n < Len(s) characters returns an error.

\* Mutant of writeStep: a failed write does not end the loop.
writeStepIgnoreError(ls, i, sk, n) ==
  LET s == Append(ls[i], NL)
  IN [sink |-> sk \o SubSeq(s, 1, n),
      err |-> IF n >= Len(s) THEN "nil" ELSE "error",
      idx |-> i + 1, pc |-> "write"]

\* One iteration of the loop: io.WriteString(w, line+"\n") accepting n
\* characters, and where the loop goes next.
writeStep(ls, i, sk, n) ==
  LET s == Append(ls[i], NL)
  IN IF n >= Len(s)
       THEN [sink |-> sk \o s, err |-> "nil", idx |-> i + 1, pc |-> "write"]
       ELSE [sink |-> sk \o SubSeq(s, 1, n), err |-> "error", idx |-> i,
             pc |-> "done"]

\* The whole loop, the write of line k (if any) accepting only n characters.
RECURSIVE writeLoop(_, _, _, _, _)
writeLoop(ls, i, sk, k, n) ==
  IF i > Len(ls) THEN [sink |-> sk, err |-> "nil"]
  ELSE LET r == writeStep(ls, i, sk, IF i = k THEN n ELSE Len(ls[i]) + 1)
       IN IF r.pc = "done" THEN [sink |-> r.sink, err |-> r.err]
          ELSE writeLoop(ls, r.idx, r.sink, k, n)

\* ------------------------------------------------------------------------
\* Bounds of the model.

\* Longest input text of the writer calls, and its alphabet.
MaxTextLen == 4
\* Widest terminal of the text and writer specifications.
MaxWidth == 4
\* Most helpWriter views alive at once in the text specification.
MaxViews == 2
\* Most Indent() calls, and most lines printed before Write, in the writer
\* specification.
MaxIndents == 2
MaxLines == 2
\* Most rows of a table given to writeTwoColumns.
MaxRows == 2
\* Most flag groups of a node, and most flags of one group.
MaxGroups == 2
MaxFlags == 2

\* The width guessWidth falls back to.
DefaultWidth == 80

\* ------------------------------------------------------------------------
\* State.

VARIABLES
  store,     \* the line sequences in memory, by address (*h.lines)
  views,     \* the helpWriter values alive; views[1] is the root writer
  pc,        \* control position
  idx,       \* loop index of Write / of writeTwoColumns' second loop
  sink,      \* the characters the output sink has accepted
  err,       \* the error Write returned ("nil" or "error")
  text,      \* the text argument of the writer call (text specification)
  rows,      \* the rows local of writeFlags / argument of writeTwoColumns
  leftSize,  \* the leftSize local of writeTwoColumns
  rowEnd,    \* rowEnd[i]: number of stored lines once row i is written
  ctx,       \* the *Context argument of DefaultHelpPrinter
  options,   \* the HelpPrinterOptions argument of DefaultHelpPrinter
  call       \* the last helpWriter call made, and how many were made

vars ==
  <<store, views, pc, idx, sink, err, text, rows, leftSize, rowEnd, ctx,
    options, call>>

\* The addresses of memory that can hold a line sequence.
Addrs == {RootAddr, RootAddr + 1}

\* The lines accumulated by the root writer.
Lines == store[RootAddr]

NoCall == [op |-> "none", view |-> 0, text |-> <<>>, n |-> 0]
NoCtx == [App |-> [Name |-> <<>>, Summary |-> <<>>,
                   Node |-> [Help |-> <<>>, Positional |-> <<>>,
                             Flags |-> <<>>, Leaves |-> <<>>]],
          Selected |-> <<>>, Width |-> DefaultWidth]
NoOptions == [Summary |-> FALSE, Compact |-> FALSE]

\* ------------------------------------------------------------------------
\* The command model handed to the renderer (built by the parser).

fa == [Name |-> <<"a">>, Short |-> NoShort, Hidden |-> FALSE,
       IsBool |-> FALSE, PlaceHolder |-> <<"P">>, Help |-> <<"a", " ", "a">>]
fb == [Name |-> <<"b">>, Short |-> <<"x">>, Hidden |-> FALSE,
       IsBool |-> TRUE, PlaceHolder |-> <<>>, Help |-> <<"a">>]
fc == [Name |-> <<"c">>, Short |-> <<"y">>, Hidden |-> TRUE,
       IsBool |-> TRUE, PlaceHolder |-> <<>>, Help |-> <<"a">>]
fd == [Name |-> <<"d">>, Short |-> NoShort, Hidden |-> FALSE,
       IsBool |-> TRUE, PlaceHolder |-> <<>>, Help |-> <<>>]
FlagPool == {fa, fb, fc, fd}

cmdC == [Summary |-> <<"c">>, Path |-> <<"c">>, Help |-> <<"a">>]
cmdD == [Summary |-> <<"d">>, Path |-> <<"d">>, Help |-> <<>>]

NodeHelps == {<<>>, <<"a", " ", "a">>}
NodePositionals == {<<>>, <<[Summary |-> <<"p">>, Help |-> <<"a">>]>>}
NodeLeaves == {<<>>, <<cmdC>>, <<cmdC, cmdD>>}
NodeFlags == {<<>>, <<<<fb>>>>, <<<<fa, fc>>, <<fd>>>>}

Nodes ==
  {[Help |-> h, Positional |-> p, Flags |-> f, Leaves |-> l] :
     h \in NodeHelps, p \in NodePositionals, f \in NodeFlags,
     l \in NodeLeaves}

AppName == <<"k">>

\* Contexts whose render target is the root (no command selected) ...
RootContexts ==
  {[App |-> [Name |-> AppName, Summary |-> <<"k">>, Node |-> n],
    Selected |-> <<>>, Width |-> w] :
     n \in Nodes, w \in {MaxWidth, DefaultWidth}}

\* ... and those whose target is a selected command of the application.
CommandContexts ==
  {[App |-> [Name |-> AppName, Summary |-> <<"k">>,
             Node |-> [Help |-> <<>>, Positional |-> <<>>, Flags |-> <<>>,
                       Leaves |-> <<cmdC>>]],
    Selected |-> <<[Summary |-> <<"c">>, Path |-> <<"c">>, Help |-> n.Help,
                    Positional |-> n.Positional, Flags |-> n.Flags,
                    Leaves |-> n.Leaves]>>,
    Width |-> w] :
     n \in Nodes, w \in {MaxWidth, DefaultWidth}}

Contexts == RootContexts \cup CommandContexts

\* Context.Empty(): the model defines no commands anywhere.
ctxEmpty(c) == Len(c.App.Node.Leaves) = 0

\* guessWidth(ctx.App.Stdout): the column count of the output terminal.
guessWidth(c) == c.Width

\* ------------------------------------------------------------------------
\* DefaultHelpPrinter.

\* Lines 34-39: the node that is rendered, ctx.Selected() or the root.
TargetNode(c) == IF c.Selected = <<>> THEN c.App.Node ELSE c.Selected[1]

\* Mutant of renderOptions: the override for an empty model is forgotten.
renderOptionsKeepSummary(opts, c) == opts

\* Lines 30-32: the options the writer is created with.
renderOptions(opts, c) ==
  IF ctxEmpty(c) THEN [opts EXCEPT !.Summary = FALSE] ELSE opts

\* Lines 33-39: the document accumulated before Write.
renderLines(opts, c) ==
  LET w == newHelpWriter(guessWidth(c), renderOptions(opts, c))
  IN IF c.Selected = <<>>
       THEN printApp(w, <<>>, c.App)
       ELSE printCommand(w, <<>>, c.App, c.Selected[1])

InitRender ==
  /\ ctx \in Contexts
  /\ options \in [Summary : BOOLEAN, Compact : BOOLEAN]
  /\ store = [a \in Addrs |-> <<>>]
  /\ views = <<>>
  /\ pc = "start"
  /\ idx = 0
  /\ sink = <<>>
  /\ err = "nil"
  /\ text = <<>>
  /\ rows = <<>>
  /\ leftSize = 0
  /\ rowEnd = <<>>
  /\ call = NoCall

DefaultHelpPrinter ==
  /\ pc = "start"
  /\ LET doc == renderLines(options, ctx)
     IN /\ store' = [store EXCEPT ![RootAddr] = doc]
        /\ views' = <<newHelpWriter(guessWidth(ctx),
                                    renderOptions(options, ctx))>>
        /\ \E k \in 0..Len(doc) :
             \E n \in (IF k = 0 THEN {0} ELSE 0..Len(doc[k])) :
               LET r == writeLoop(doc, 1, sink, k, n)
               IN sink' = r.sink /\ err' = r.err
  /\ rows' = IF ~renderOptions(options, ctx).Summary
                  /\ Len(TargetNode(ctx).Flags) > 0
               THEN writeFlagsRows(TargetNode(ctx).Flags)
               ELSE <<>>
  /\ pc' = "done"
  /\ UNCHANGED <<idx, text, leftSize, rowEnd, ctx, options, call>>

NextRender == DefaultHelpPrinter

Spec == InitRender /\ [][NextRender]_vars

\* ------------------------------------------------------------------------
\* DefaultHelpPrinter on every grouping of the flags of FlagPool.

Range(f) == {f[i] : i \in DOMAIN f}

\* A group: at most MaxFlags distinct flags, at least one.
FlagGroups ==
  {g \in UNION {[1..n -> FlagPool] : n \in 1..MaxFlags} :
     \A i, j \in DOMAIN g : i # j => g[i] # g[j]}

\* What AllFlags() returns: at most MaxGroups groups, no flag twice.
FlagGroupings ==
  {gs \in UNION {[1..m -> FlagGroups] : m \in 0..MaxGroups} :
     \A i, j \in DOMAIN gs : i # j => Range(gs[i]) \cap Range(gs[j]) = {}}

FlagContexts ==
  {[App |-> [Name |-> AppName, Summary |-> <<"k">>,
             Node |-> [Help |-> <<>>, Positional |-> <<>>, Flags |-> gs,
                       Leaves |-> <<>>]],
    Selected |-> <<>>, Width |-> w] :
     gs \in FlagGroupings, w \in {MaxWidth, DefaultWidth}}

InitFlags ==
  /\ ctx \in FlagContexts
  /\ options \in [Summary : BOOLEAN, Compact : BOOLEAN]
  /\ store = [a \in Addrs |-> <<>>]
  /\ views = <<>>
  /\ pc = "start"
  /\ idx = 0
  /\ sink = <<>>
  /\ err = "nil"
  /\ text = <<>>
  /\ rows = <<>>
  /\ leftSize = 0
  /\ rowEnd = <<>>
  /\ call = NoCall

SpecFlags == InitFlags /\ [][NextRender]_vars

\* ------------------------------------------------------------------------
\* writeTwoColumns, loop by loop, on a table given by the caller.

TableLabels ==
  {Repeat("x", n) : n \in {0, 1, 3, LabelCutoff - 1, LabelCutoff,
                           LabelCutoff + 1}}

\* Descriptions: none, one word, two words, and one whose first line is
\* indented deeper than its second.
TableDescriptions ==
  {<<>>, <<"a">>, <<"a", "a", " ", "a">>, <<" ", "a", "\n", "b">>}

TableInputs ==
  UNION {[1..m -> TableLabels \X TableDescriptions] : m \in 0..MaxRows}

TableWriter(width) ==
  helpWriter_Indent(newHelpWriter(width, NoOptions))

InitTable ==
  /\ rows \in TableInputs
  /\ \E width \in {MaxWidth, DefaultWidth} :
       views = <<newHelpWriter(width, NoOptions), TableWriter(width)>>
  /\ store = [a \in Addrs |-> <<>>]
  /\ pc = "size"
  /\ idx = 0
  /\ leftSize = 0
  /\ rowEnd = <<>>
  /\ sink = <<>>
  /\ err = "nil"
  /\ text = <<>>
  /\ ctx = NoCtx
  /\ options = NoOptions
  /\ call = NoCall

\* Lines 198-206: the first loop.
TwoColumnsSize ==
  /\ pc = "size"
  /\ leftSize' = firstColumnSize(rows, 1, 0)
  /\ idx' = 1
  /\ pc' = "rows"
  /\ UNCHANGED <<store, views, sink, err, text, rows, rowEnd, ctx, options,
                 call>>

\* Lines 208-222: one iteration of the second loop.
TwoColumnsRow ==
  /\ pc = "rows"
  /\ idx <= Len(rows)
  /\ store' = [store EXCEPT ![views[2].lines] =
                 twoColumnsRow(views[2], @, defaultColumnPadding, leftSize,
                               rows[idx])]
  /\ rowEnd' = Append(rowEnd, Len(store'[views[2].lines]))
  /\ idx' = idx + 1
  /\ UNCHANGED <<views, pc, sink, err, text, rows, leftSize, ctx, options,
                 call>>

NextTable == TwoColumnsSize \/ TwoColumnsRow

SpecTable == InitTable /\ [][NextTable]_vars

\* ------------------------------------------------------------------------
\* One helpWriter call on a text given by the caller, through the root
\* writer or one of its Indent() views.

Chars == {"a", SP, TAB, NL}

Texts == UNION {[1..n -> Chars] : n \in 0..MaxTextLen}

InitText ==
  /\ text \in Texts
  /\ \E width \in 1..MaxWidth : views = <<newHelpWriter(width, NoOptions)>>
  /\ store = [a \in Addrs |-> <<>>]
  /\ pc = "ready"
  /\ call = NoCall
  /\ idx = 0
  /\ sink = <<>>
  /\ err = "nil"
  /\ rows = <<>>
  /\ leftSize = 0
  /\ rowEnd = <<>>
  /\ ctx = NoCtx
  /\ options = NoOptions

TextIndent(v) ==
  /\ pc = "ready"
  /\ Len(views) < MaxViews
  /\ views' = Append(views, helpWriter_Indent(views[v]))
  /\ UNCHANGED <<store, pc, idx, sink, err, text, rows, leftSize, rowEnd,
                 ctx, options, call>>

\* The call op through view v, newLines being the sequence it leaves.
TextCall(v, op, newLines) ==
  /\ pc = "ready"
  /\ store' = [store EXCEPT ![views[v].lines] = newLines]
  /\ call' = [op |-> op, view |-> v, text |-> text, n |-> call.n + 1]
  /\ pc' = "called"
  /\ UNCHANGED <<views, idx, sink, err, text, rows, leftSize, rowEnd, ctx,
                 options>>

TextPrint(v) ==
  TextCall(v, "Print", helpWriter_Print(views[v], store[views[v].lines], text))

TextPrintf(v) ==
  TextCall(v, "Printf",
           helpWriter_Printf(views[v], store[views[v].lines], FmtOffsetLine,
                             <<text, text>>))

TextWrap(v) ==
  TextCall(v, "Wrap", helpWriter_Wrap(views[v], store[views[v].lines], text))

TextTwoColumns(v) ==
  TextCall(v, "writeTwoColumns",
           writeTwoColumns(views[v], store[views[v].lines],
                           defaultColumnPadding, <<<<text, text>>>>))

NextText ==
  \/ \E v \in 1..Len(views) : TextIndent(v)
  \/ \E v \in 1..Len(views) : TextPrint(v)
  \/ \E v \in 1..Len(views) : TextPrintf(v)
  \/ \E v \in 1..Len(views) : TextWrap(v)
  \/ \E v \in 1..Len(views) : TextTwoColumns(v)

SpecText == InitText /\ [][NextText]_vars

\* ------------------------------------------------------------------------
\* A caller of the helpWriter: Indent() and Print through any view, then
\* Write on the root writer, one line per step.

WriterTexts == {<<"a">>, <<"b", SP>>}

InitWriter ==
  /\ \E width \in {MaxWidth, DefaultWidth} :
       views = <<newHelpWriter(width, NoOptions)>>
  /\ store = [a \in Addrs |-> <<>>]
  /\ pc = "build"
  /\ call = NoCall
  /\ idx = 0
  /\ sink = <<>>
  /\ err = "nil"
  /\ text = <<>>
  /\ rows = <<>>
  /\ leftSize = 0
  /\ rowEnd = <<>>
  /\ ctx = NoCtx
  /\ options = NoOptions

WriterIndent(v) ==
  /\ pc = "build"
  /\ Len(views) <= MaxIndents
  /\ views' = Append(views, helpWriter_Indent(views[v]))
  /\ call' = [op |-> "Indent", view |-> v, text |-> <<>>, n |-> call.n + 1]
  /\ UNCHANGED <<store, pc, idx, sink, err, text, rows, leftSize, rowEnd,
                 ctx, options>>

WriterPrint(v, t) ==
  /\ pc = "build"
  /\ Len(Flatten([a \in 1..Cardinality(Addrs) |-> store[a]])) < MaxLines
  /\ store' = [store EXCEPT ![views[v].lines] =
                 helpWriter_Print(views[v], @, t)]
  /\ call' = [op |-> "Print", view |-> v, text |-> t, n |-> call.n + 1]
  /\ UNCHANGED <<views, pc, idx, sink, err, text, rows, leftSize, rowEnd,
                 ctx, options>>

\* Line 147: Write is entered on the root writer.
WriteEnter ==
  /\ pc = "build"
  /\ pc' = "write"
  /\ idx' = 1
  /\ call' = [op |-> "Write", view |-> 1, text |-> <<>>, n |-> call.n + 1]
  /\ UNCHANGED <<store, views, sink, err, text, rows, leftSize, rowEnd, ctx,
                 options>>

\* Lines 148-153: one iteration, the sink accepting n characters.
WriteLine ==
  /\ pc = "write"
  /\ idx <= Len(store[views[1].lines])
  /\ \E n \in 0..(Len(store[views[1].lines][idx]) + 1) :
       LET r == writeStep(store[views[1].lines], idx, sink, n)
       IN sink' = r.sink /\ err' = r.err /\ idx' = r.idx /\ pc' = r.pc
  /\ UNCHANGED <<store, views, text, rows, leftSize, rowEnd, ctx, options,
                 call>>

\* Line 154: return nil.
WriteReturn ==
  /\ pc = "write"
  /\ idx > Len(store[views[1].lines])
  /\ pc' = "done"
  /\ UNCHANGED <<store, views, idx, sink, err, text, rows, leftSize, rowEnd,
                 ctx, options, call>>

NextWriter ==
  \/ \E v \in 1..Len(views) : WriterIndent(v)
  \/ \E v \in 1..Len(views) : \E t \in WriterTexts : WriterPrint(v, t)
  \/ WriteEnter
  \/ WriteLine
  \/ WriteReturn

SpecWriter == InitWriter /\ [][NextWriter]_vars

\* ------------------------------------------------------------------------
\* Vocabulary of the claims.

\* The characters of the lines ls, each followed by one newline.
RECURSIVE joinLines(_)
joinLines(ls) ==
  IF ls = <<>> THEN <<>> ELSE Append(ls[1], NL) \o joinLines(Tail(ls))

HasLine(ls, line) == \E i \in 1..Len(ls) : ls[i] = line

UsagePrefix == <<"U", "s", "a", "g", "e", ":", " ", " ">>

\* ------------------------------------------------------------------------
\* Claims about DefaultHelpPrinter (specification Spec).

\* C1: on a context whose model defines no commands (ctx.Empty()), the
\* document rendered, and the output written when no write fails, is the
\* one rendered with the opposite value of options.Summary: the summary
\* request is ignored and the Arguments/Flags sections are rendered.
C1_EmptyModelIgnoresSummary ==
  (pc = "done" /\ ctxEmpty(ctx)) =>
    LET other == renderLines([options EXCEPT !.Summary = ~options.Summary],
                             ctx)
    IN /\ Lines = other
       /\ err = "nil" => sink = joinLines(other)
       /\ TargetNode(ctx).Flags # <<>> => HasLine(Lines, HdrFlags)
       /\ TargetNode(ctx).Positional # <<>> => HasLine(Lines, HdrArguments)

C1_Witness ==
  /\ pc = "done" /\ ctxEmpty(ctx) /\ options.Summary /\ err = "nil"
  /\ HasLine(Lines, HdrFlags) /\ HasLine(Lines, HdrArguments)
  /\ sink # <<>>

\* C2: with options.Summary set and a model that has a command, the
\* document is the usage line, then (if the node has help) a blank line
\* and the wrapped help, then a blank line and the hint; it has no
\* "Arguments:", "Flags:" or "Commands:" line and no table row.
C2_SummarySuppressesDetail ==
  (pc = "done" /\ options.Summary /\ ~ctxEmpty(ctx)) =>
    LET node == TargetNode(ctx)
        root == ctx.Selected = <<>>
        usage == IF root THEN UsagePrefix \o ctx.App.Summary
                 ELSE UsagePrefix \o ctx.App.Name \o <<SP>>
                      \o ctx.Selected[1].Summary
        hint == IF root THEN Sprintf(FmtHintSummary, <<ctx.App.Name>>)
                ELSE Sprintf(FmtHintCmdSummary,
                             <<ctx.App.Name, ctx.Selected[1].Path>>)
        help == IF node.Help = <<>> THEN <<>>
                ELSE <<<<>>>> \o helpWriter_Wrap(views[1], <<>>, node.Help)
    IN /\ Lines = <<usage>> \o help \o <<<<>>, hint>>
       /\ ~HasLine(Lines, HdrArguments)
       /\ ~HasLine(Lines, HdrFlags)
       /\ ~HasLine(Lines, HdrCommands)

C2_Witness ==
  /\ pc = "done" /\ options.Summary /\ ~ctxEmpty(ctx)
  /\ ctx.Selected # <<>>
  /\ TargetNode(ctx).Positional # <<>>
  /\ TargetNode(ctx).Flags # <<>>
  /\ TargetNode(ctx).Leaves # <<>>
  /\ TargetNode(ctx).Help # <<>>
  /\ Len(Lines) >= 5

\* ------------------------------------------------------------------------
\* Claims about the Flags table (specification SpecFlags).

BlankRow == <<<<>>, <<>>>>

IsRendered(f) == ~f.Hidden

\* The display string the claim gives a flag, reserve telling whether the
\* four-space reservation applies.
DisplayString(reserve, f) ==
  (IF f.Short # NoShort
     THEN <<"-">> \o f.Short \o <<",", " ", "-", "-">> \o f.Name
   ELSE IF reserve THEN <<" ", " ", " ", " ", "-", "-">> \o f.Name
   ELSE <<"-", "-">> \o f.Name)
  \o (IF f.IsBool THEN <<>> ELSE <<"=">> \o f.PlaceHolder)

\* C7: in a rendered Flags table, the reservation is decided over the
\* visible flags: if some rendered flag has a short form every rendered flag
\* without one is displayed as "    --<long>", and if none has a short form
\* every rendered flag is displayed as "--<long>" (followed by
\* "=<placeholder>" when the flag takes a value).
C7_ShortFlagReservation ==
  (pc = "done" /\ rows # <<>>) =>
    LET groups == TargetNode(ctx).Flags
        shown == SelectSeq(Flatten(groups), IsRendered)
        reserve == \E i \in 1..Len(shown) : shown[i].Short # NoShort
        labels == SelectSeq(rows, LAMBDA r : r # BlankRow)
    IN /\ Len(labels) = Len(shown)
       /\ \A i \in 1..Len(shown) :
            labels[i][1] = DisplayString(reserve, shown[i])

\* C9: in non-summary rendering "Flags:" is printed exactly when some flag
\* group is non-empty; hidden flags produce no row, and the table never
\* starts or ends with a blank row nor has two adjacent blank rows.
C9_FlagsSectionBlankRows ==
  (pc = "done" /\ ~views[1].Summary) =>
    LET groups == TargetNode(ctx).Flags
    IN /\ HasLine(Lines, HdrFlags) <=> (\E i \in 1..Len(groups) : groups[i] # <<>>)
       /\ Len(SelectSeq(rows, LAMBDA r : r # BlankRow))
            = Len(SelectSeq(Flatten(groups), IsRendered))
       /\ rows # <<>> =>
            /\ rows[1] # BlankRow
            /\ rows[Len(rows)] # BlankRow
            /\ \A i \in 1..(Len(rows) - 1) :
                 ~(rows[i] = BlankRow /\ rows[i + 1] = BlankRow)

\* ------------------------------------------------------------------------
\* Claims about writeTwoColumns (specification SpecTable).

TableDone == pc = "rows" /\ idx > Len(rows)

IsShortLabel(row) == Len(row[1]) < LabelCutoff

\* The stored lines that row i of the table produced.
RowSegment(i) ==
  SubSeq(Lines, (IF i = 1 THEN 0 ELSE rowEnd[i - 1]) + 1, rowEnd[i])

RECURSIVE shortSegments(_)
shortSegments(i) ==
  IF i > Len(rows) THEN <<>>
  ELSE (IF IsShortLabel(rows[i]) THEN RowSegment(i) ELSE <<>>)
       \o shortSegments(i + 1)

SetMax(S) == CHOOSE m \in S : \A x \in S : x <= m

\* C5: the label-column width is the greatest length of a label shorter
\* than 30 (0 without one), and the lines of the rows with such labels are
\* those of the table from which every row with a longer label is removed.
C5_LongLabelIsolation ==
  TableDone =>
    /\ leftSize = SetMax({0} \cup {Len(rows[i][1]) :
                    i \in {j \in 1..Len(rows) : IsShortLabel(rows[j])}})
    /\ shortSegments(1)
         = writeTwoColumns(views[2], <<>>, defaultColumnPadding,
                           SelectSeq(rows, IsShortLabel))

C5_Witness ==
  /\ TableDone
  /\ Len(rows) = 2
  /\ Len(rows[1][1]) > LabelCutoff
  /\ Len(rows[2][1]) = 3 /\ rows[2][2] = <<"a", "a", " ", "a">>
  /\ leftSize = 3
  /\ Len(RowSegment(1)) >= 2 /\ Len(RowSegment(2)) >= 1

AllSpaces(s, from, to) == \A k \in from..to : k <= Len(s) => s[k] = SP

\* C6: for every row with a label shorter than 30 and a non-empty
\* description, the first character of the description is on the row's
\* first line at column indent + label-column width + padding, and every
\* continuation line starts at that column or to its right.
C6_DescriptionColumn ==
  TableDone =>
    \A i \in 1..Len(rows) :
      (IsShortLabel(rows[i]) /\ Fields(rows[i][2]) # <<>>) =>
        LET col == Len(views[2].indent) + leftSize + defaultColumnPadding
            seg == RowSegment(i)
        IN /\ Len(seg) >= 1
           /\ Len(seg[1]) > col
           /\ seg[1][col + 1] = Fields(rows[i][2])[1][1]
           /\ AllSpaces(seg[1],
                        Len(views[2].indent) + Len(rows[i][1]) + 1, col)
           /\ \A k \in 2..Len(seg) : AllSpaces(seg[k], 1, col)

\* ------------------------------------------------------------------------
\* Claims about the stored lines (specification SpecText).

EndsIn(line, cs) == line # <<>> /\ line[Len(line)] \in cs

\* C4 as claimed: after a Print, Printf, Wrap or table-writing call, through
\* the root writer or an Indent() view, no stored line ends in a whitespace
\* character.
C4_NoTrailingWhitespace ==
  \A i \in 1..Len(Lines) : ~EndsIn(Lines[i], {SP, TAB, NL})

\* C4 as amended: no stored line ends in a space character.
C4_NoTrailingSpace ==
  \A i \in 1..Len(Lines) : ~EndsIn(Lines[i], {SP})

C4_Witness ==
  /\ pc = "called" /\ call.op = "Print" /\ call.view = 2
  /\ text = <<"a", SP, SP>>
  /\ Lines = <<<<SP, SP, "a">>>>

\* What follows the indent prefix of a stored line.
Body(line, h) ==
  IF Len(line) > Len(h.indent)
    THEN SubSeq(line, Len(h.indent) + 1, Len(line)) ELSE <<>>

IsLongWord(body, w) ==
  Len(body) > w /\ \A k \in 1..Len(body) : ~IsSpace(body[k])

IsPrefix(p, q) == Len(p) <= Len(q) /\ SubSeq(q, 1, Len(p)) = p

C3_WriteStopsAtFirstError ==
  /\ pc = "write" =>
       /\ err = "nil"
       /\ sink = joinLines(SubSeq(Lines, 1, idx - 1))
  /\ (pc = "done" /\ err = "nil") => sink = joinLines(Lines)
  /\ (pc = "done" /\ err = "error") =>
       /\ idx \in 1..Len(Lines)
       /\ \E n \in 0..Len(Lines[idx]) :
            sink = joinLines(SubSeq(Lines, 1, idx - 1))
                   \o SubSeq(Append(Lines[idx], NL), 1, n)

C3_Witness ==
  /\ pc = "done" /\ err = "error" /\ idx = 2
  /\ Lines = <<<<"a">>, <<SP, SP, "b">>>>
  /\ sink = <<"a", NL, SP, SP>>

\* The views of C10: all share the root's line sequence, and indent
\* length + width is the root's width for each.
C10_ViewsInv ==
  \A v \in 1..Len(views) :
    /\ views[v].lines = views[1].lines
    /\ views[v].indent = Repeat(SP, Len(views[v].indent))
    /\ Len(views[v].indent) + views[v].width = views[1].width

\* The steps of C10: a Print through any view appends its line at the end
\* of the shared sequence; Indent() adds a view two spaces deeper and two
\* columns narrower than its parent and changes no view and no line.
C10_StepAct ==
  /\ (call'.n # call.n /\ call'.op = "Print") =>
       /\ Lines' = Append(Lines,
                     TrimRight(views[call'.view].indent \o call'.text, {SP}))
       /\ views' = views
  /\ (call'.n # call.n /\ call'.op = "Indent") =>
       /\ store' = store
       /\ SubSeq(views', 1, Len(views)) = views
       /\ Len(views') = Len(views) + 1
       /\ views'[Len(views')].indent = views[call'.view].indent \o <<SP, SP>>
       /\ views'[Len(views')].width = views[call'.view].width - 2
  /\ (pc' = "done" /\ err' = "nil") => sink' = joinLines(Lines')

\* C10: Indent() returns a view sharing the parent's line sequence, two
\* spaces deeper and two columns narrower; lines printed through any view
\* are appended to the one sequence in call order and written by Write.
C10_IndentSharesLines == []C10_ViewsInv /\ [][C10_StepAct]_vars

C10_Witness ==
  /\ pc = "done" /\ err = "nil"
  /\ Len(views) = 3 /\ Len(views[3].indent) = 4
  /\ Lines = <<<<SP, SP, SP, SP, "a">>, <<"b">>>>
  /\ sink = <<SP, SP, SP, SP, "a", NL, "b", NL>>

====
